---- MODULE Spec2Model ----
(***************************************************************************)
(* Model of the service container (src/services/container.ts), of the     *)
(* transport client (src/services/http/http-client.ts, found in           *)
(* src/src/services/registry.ts lines 220-262), of the token issuer, the   *)
(* time provider, the bootstrap and the HttpClient component.              *)
(*                                                                         *)
(* The specifications share the variables:                                 *)
(*   SpecContainer  a caller driving one ServiceContainer with sequences   *)
(*                  of register / get / has / clear calls;                 *)
(*   SpecHttp       callers of HttpClient.send over the axios instance the *)
(*                  constructor creates;                                   *)
(*   SpecMap        the pure function mapToHttpResponse and the closure    *)
(*                  ensureSuccessStatusCode applied to arbitrary axios     *)
(*                  responses;                                             *)
(*   SpecAuth       callers of AuthorizationService.getToken;              *)
(*   SpecBoot       configureServices and the instances the component      *)
(*                  constructs;                                            *)
(*   SpecTime       callers of SystemTimeProvider.addSeconds / addMinutes; *)
(*   SpecPage       the HttpClient component: form edits, Get Token and    *)
(*                  Send Request clicks, response arrivals, the clock.     *)
(***************************************************************************)
EXTENDS Integers, Sequences, FiniteSets, TLC

VARIABLES
    services,   \* ServiceContainer.services : Map<string, unknown>
    log,        \* the calls made on the container so far, with their outcomes
    clientOptions,  \* the HttpOptions argument the HttpClient was constructed with
    client,     \* HttpClient.client : the configuration of the axios instance
    sends,      \* the send() calls: position, request, outcome
    mapped,     \* SpecMap: the HttpResponse last built by mapToHttpResponse
    ensured,    \* SpecMap: outcome of the last ensureSuccessStatusCode() call
    authService,    \* AuthorizationService: its config (httpClient is `client`)
    timeProvider,   \* the TimeProvider injected into the AuthorizationService
    clock,          \* the ambient clock (new Date()), in milliseconds
    tokens,         \* the getToken() calls: position, send call, outcome
    env,        \* import.meta.env: the APP_* variables, each absent or a string
    heap,       \* the service instances constructed so far, in order
    boot,       \* main.tsx: outcome of configureServices() and its container
    ui,         \* the HttpClient component: renders, instances of the last render
    uiCalls,    \* service calls made by the component's handlers
    dates,      \* the Date objects created so far: the time value of each
    timeCalls,  \* the addSeconds / addMinutes calls made, with their results
    page        \* the HttpClient component: its React state, the status and
                \* button of its last render, its handlers in flight

vars == <<services, log, clientOptions, client, sends, mapped, ensured,
          authService, timeProvider, clock, tokens,
          env, heap, boot, ui, uiCalls, dates, timeCalls, page>>

containerVars == <<services, log>>
httpVars == <<clientOptions, client, sends>>
mapVars == <<mapped, ensured>>
authVars == <<authService, timeProvider, clock, tokens>>
bootVars == <<env, heap, boot, ui, uiCalls>>
timeVars == <<dates, timeCalls>>
pageVars == <<page>>

(***************************************************************************)
(* Bounds                                                                  *)
(***************************************************************************)
NumObjects == 2     \* distinct service objects a caller may register
MaxOps == 3         \* container calls in one run
MaxSends == 2       \* send() calls in one run
MaxTicks == 2       \* advances of the clock in one run
MaxRenders == 2     \* renders of the HttpClient component in one run
MaxUiCalls == 2     \* handler calls of the component in one run

(***************************************************************************)
(* JavaScript values stored in the container.  `unknown` admits any value: *)
(* objects (compared by reference) and primitives, among them the falsy    *)
(* ones 0, '', false, null and undefined.                                  *)
(***************************************************************************)
JSObject(r) == [type |-> "object", ref |-> r, num |-> 0, str |-> "", bool |-> FALSE]
JSNumber(n) == [type |-> "number", ref |-> 0, num |-> n, str |-> "", bool |-> FALSE]
JSString(s) == [type |-> "string", ref |-> 0, num |-> 0, str |-> s, bool |-> FALSE]
JSBoolean(b) == [type |-> "boolean", ref |-> 0, num |-> 0, str |-> "", bool |-> b]
JSNull == [type |-> "null", ref |-> 0, num |-> 0, str |-> "", bool |-> FALSE]
JSUndefined == [type |-> "undefined", ref |-> 0, num |-> 0, str |-> "", bool |-> FALSE]

\* ECMAScript ToBoolean, as applied by the `!` operator
ToBoolean(v) ==
    CASE v.type = "object" -> TRUE
      [] v.type = "number" -> v.num # 0
      [] v.type = "string" -> v.str # ""
      [] v.type = "boolean" -> v.bool
      [] OTHER -> FALSE

FalsyInstances == {JSNumber(0), JSString(""), JSBoolean(FALSE), JSNull, JSUndefined}
Instances == {JSObject(r) : r \in 1..NumObjects} \cup FalsyInstances

\* The three well-known keys of registry.ts
Services == {"HttpClient", "TimeProvider", "AuthService"}
Names == Services

(***************************************************************************)
(* Outcome of a call: it returned a value or threw an Error with a message *)
(***************************************************************************)
Returned(v) == [outcome |-> "returned", value |-> v, message |-> ""]
Threw(msg) == [outcome |-> "threw", value |-> JSUndefined, message |-> msg]

\* Map.prototype.get: undefined when the key is absent
MapGet(m, name) == IF name \in DOMAIN m THEN m[name] ELSE JSUndefined
\* Map.prototype.has
MapHas(m, name) == name \in DOMAIN m
\* Map.prototype.set: adds or replaces the entry
MapSet(m, name, instance) ==
    [k \in DOMAIN m \cup {name} |-> IF k = name THEN instance ELSE m[k]]
\* new Map() and Map.prototype.clear
EmptyMap == [k \in {} |-> JSUndefined]

NotRegisteredMessage(name) == "Service '" \o name \o "' not registered"

\* Mutant of GetOutcome: the error no longer names the key
GetOutcome_MessageWithoutKey(m, name) ==
    LET service == MapGet(m, name)
    IN  IF ~ToBoolean(service)
        THEN Threw("Service not registered")
        ELSE Returned(service)

\* ServiceContainer.get evaluated on a map m
GetOutcome(m, name) ==
    LET service == MapGet(m, name)
    IN  IF ~ToBoolean(service)
        THEN Threw(NotRegisteredMessage(name))
        ELSE Returned(service)

\* ServiceContainer.has evaluated on a map m
HasOutcome(m, name) == Returned(JSBoolean(MapHas(m, name)))

Call(op, name, instance, result) ==
    [op |-> op, name |-> name, instance |-> instance, result |-> result]

(***************************************************************************)
(* ServiceContainer operations                                             *)
(***************************************************************************)
register(name, instance) ==
    /\ Len(log) < MaxOps
    /\ services' = MapSet(services, name, instance)
    /\ log' = Append(log, Call("register", name, instance, Returned(JSUndefined)))
    /\ UNCHANGED <<httpVars, mapVars, authVars, bootVars, timeVars, pageVars>>

\* Mutant of get: a miss instantiates a service lazily and stores it
get_LazyInstantiate(name) ==
    /\ Len(log) < MaxOps
    /\ services' = IF ToBoolean(MapGet(services, name))
                   THEN services
                   ELSE MapSet(services, name, JSObject(1))
    /\ log' = Append(log, Call("get", name, JSUndefined, GetOutcome(services', name)))
    /\ UNCHANGED <<httpVars, mapVars, authVars, bootVars, timeVars, pageVars>>

get(name) ==
    /\ Len(log) < MaxOps
    /\ services' = services
    /\ log' = Append(log, Call("get", name, JSUndefined, GetOutcome(services, name)))
    /\ UNCHANGED <<httpVars, mapVars, authVars, bootVars, timeVars, pageVars>>

has(name) ==
    /\ Len(log) < MaxOps
    /\ services' = services
    /\ log' = Append(log, Call("has", name, JSUndefined, HasOutcome(services, name)))
    /\ UNCHANGED <<httpVars, mapVars, authVars, bootVars, timeVars, pageVars>>

\* Mutant of clear: the map is left as it is
clear_KeepsEntries ==
    /\ Len(log) < MaxOps
    /\ services' = services
    /\ log' = Append(log, Call("clear", "", JSUndefined, Returned(JSUndefined)))
    /\ UNCHANGED <<httpVars, mapVars, authVars, bootVars, timeVars, pageVars>>

clear ==
    /\ Len(log) < MaxOps
    /\ services' = EmptyMap
    /\ log' = Append(log, Call("clear", "", JSUndefined, Returned(JSUndefined)))
    /\ UNCHANGED <<httpVars, mapVars, authVars, bootVars, timeVars, pageVars>>

(***************************************************************************)
(* HttpClient (http-client.ts)                                             *)
(***************************************************************************)
DefaultTimeout == 30000

\* HttpOptions values a caller passes to the constructor; <<>> is "absent"
OptionsSet ==
    { <<>>,
      << [baseUrl |-> <<"https://api.example.com">>, timeout |-> <<>>] >>,
      << [baseUrl |-> <<>>, timeout |-> <<60000>>] >>,
      << [baseUrl |-> <<"https://test.com">>, timeout |-> <<5000>>] >>,
      << [baseUrl |-> <<"">>, timeout |-> <<0>>] >> }

\* Mutant of the constructor: `||` in place of `??`, a timeout of 0 is
\* replaced by the default
HttpClientConstructor_FalsyTimeout(options) ==
    [ baseURL |-> IF options = <<>> THEN <<>> ELSE options[1].baseUrl,
      timeout |-> IF options = <<>> \/ options[1].timeout = <<>>
                     \/ options[1].timeout = <<0>>
                  THEN DefaultTimeout
                  ELSE options[1].timeout[1],
      validateStatus |-> "default" ]

\* constructor: the configuration handed to axios.create.  No validateStatus
\* is passed, so the instance keeps the library's default one.
HttpClientConstructor(options) ==
    [ baseURL |-> IF options = <<>> THEN <<>> ELSE options[1].baseUrl,
      timeout |-> IF options = <<>> \/ options[1].timeout = <<>>
                  THEN DefaultTimeout
                  ELSE options[1].timeout[1],
      validateStatus |-> "default" ]

\* Request descriptors (http-types.ts HttpRequest); headers and body optional
NoHeaders == [h \in {} |-> ""]
Requests ==
    { [url |-> "/test", method |-> "GET",
       headers |-> <<[h \in {"Authorization"} |-> "Bearer token"]>>, body |-> <<>>],
      [url |-> "/create", method |-> "POST",
       headers |-> <<>>, body |-> <<"{name}">>] }

\* What the server can answer, and how an exchange can fail to complete
StatusText(c) ==
    CASE c = 200 -> "OK"
      [] c = 201 -> "Created"
      [] c = 400 -> "Bad Request"
      [] c = 404 -> "Not Found"
      [] c = 500 -> "Internal Server Error"
      [] OTHER -> ""
HttpStatuses == {199, 200, 299, 300, 404, 500}
NoError == [name |-> "", code |-> "", message |-> ""]
TransportErrors ==
    { [name |-> "AxiosError", code |-> "ECONNABORTED", message |-> "timeout exceeded"],
      [name |-> "AxiosError", code |-> "ERR_NETWORK", message |-> "Network Error"] }

AxiosResponse(status, statusText, data) ==
    [status |-> status, statusText |-> statusText, headers |-> NoHeaders, data |-> data]
NoResponse == AxiosResponse(0, "", "")

\* An exchange on the wire: completed with a response, or failed
Completed(r) == [completed |-> TRUE, response |-> r, error |-> NoError]
Failed(e) == [completed |-> FALSE, response |-> NoResponse, error |-> e]
Exchanges ==
    {Completed(AxiosResponse(c, StatusText(c), "payload")) : c \in HttpStatuses}
        \cup {Failed(e) : e \in TransportErrors}

\* The error axios rejects with when validateStatus turns a response down
AxiosStatusError(status) ==
    [ name |-> "AxiosError",
      code |-> IF status >= 400 /\ status < 500 THEN "ERR_BAD_REQUEST" ELSE "ERR_BAD_RESPONSE",
      message |-> "Request failed with status code " \o ToString(status) ]

Fulfilled(r) == [state |-> "fulfilled", response |-> r, error |-> NoError]
Rejected(e) == [state |-> "rejected", response |-> NoResponse, error |-> e]

\* The promise of client.request(...) for an instance created with cfg: a
\* failed exchange rejects; a completed one is fulfilled only if the
\* instance's validateStatus accepts the status (default: 2xx).
AxiosRequestPromise(cfg, exchange) ==
    IF ~exchange.completed
    THEN Rejected(exchange.error)
    ELSE IF cfg.validateStatus = "default"
            /\ ~(exchange.response.status >= 200 /\ exchange.response.status < 300)
         THEN Rejected(AxiosStatusError(exchange.response.status))
         ELSE Fulfilled(exchange.response)

\* Mutant of mapToHttpResponse: the upper bound of the range is inclusive
mapToHttpResponse_InclusiveUpper(response) ==
    LET isSuccessStatusCode == response.status >= 200 /\ response.status <= 300
    IN  [ status |-> response.status,
          statusText |-> response.statusText,
          headers |-> response.headers,
          data |-> response.data,
          isSuccessStatusCode |-> isSuccessStatusCode,
          ensureSuccessStatusCode |->
              [ code |-> "throw unless success",
                isSuccessStatusCode |-> isSuccessStatusCode,
                status |-> response.status,
                statusText |-> response.statusText ] ]

\* mapToHttpResponse: the closure ensureSuccessStatusCode captures the local
\* isSuccessStatusCode and the axios response
mapToHttpResponse(response) ==
    LET isSuccessStatusCode == response.status >= 200 /\ response.status < 300
    IN  [ status |-> response.status,
          statusText |-> response.statusText,
          headers |-> response.headers,
          data |-> response.data,
          isSuccessStatusCode |-> isSuccessStatusCode,
          ensureSuccessStatusCode |->
              [ code |-> "throw unless success",
                isSuccessStatusCode |-> isSuccessStatusCode,
                status |-> response.status,
                statusText |-> response.statusText ] ]

\* Mutant of ensureSuccessStatusCode: only 4xx and 5xx statuses throw
ensureSuccessStatusCode_ClientAndServerErrorsOnly(httpResponse) ==
    LET closure == httpResponse.ensureSuccessStatusCode
    IN  IF closure.status >= 400
        THEN Threw("HTTP Error " \o ToString(closure.status) \o ": " \o closure.statusText)
        ELSE Returned(JSUndefined)

\* Calling response.ensureSuccessStatusCode(): the body of the function the
\* response carries is run, for mapToHttpResponse's closure the check of the
\* captured flag, for a function with an empty body nothing
ensureSuccessStatusCode(httpResponse) ==
    LET closure == httpResponse.ensureSuccessStatusCode
    IN  IF closure.code = "throw unless success" /\ ~closure.isSuccessStatusCode
        THEN Threw("HTTP Error " \o ToString(closure.status) \o ": " \o closure.statusText)
        ELSE Returned(JSUndefined)

\* Mutant of OutboundMessage: the descriptor's headers are not passed on
OutboundMessage_WithoutHeaders(request) ==
    [ url |-> request.url,
      method |-> request.method,
      headers |-> <<>>,
      data |-> request.body ]

\* The axios request configuration send builds from the descriptor
OutboundMessage(request) ==
    [ url |-> request.url,
      method |-> request.method,
      headers |-> request.headers,
      data |-> request.body ]

SendIds == 1..MaxSends
IdleSend ==
    [ pc |-> "idle", request |-> <<>>, outbound |-> <<>>, exchange |-> <<>>,
      promise |-> <<>>, result |-> <<>>, error |-> <<>>, ensure |-> <<>> ]

\* send, up to the await: one request is handed to the axios instance
send(id, request) ==
    /\ sends[id].pc = "idle"
    /\ \A j \in SendIds : j < id => sends[j].pc # "idle"
    /\ sends' = [sends EXCEPT ![id] =
                    [@ EXCEPT !.pc = "awaiting",
                              !.request = <<request>>,
                              !.outbound = Append(@, OutboundMessage(request))]]
    /\ UNCHANGED <<clientOptions, client, containerVars, mapVars, bootVars, timeVars>>

\* The exchange ends and the promise of client.request settles
requestSettles(id, exchange) ==
    /\ sends[id].pc = "awaiting"
    /\ sends' = [sends EXCEPT ![id] =
                    [@ EXCEPT !.pc = "settled",
                              !.exchange = <<exchange>>,
                              !.promise = <<AxiosRequestPromise(client, exchange)>>]]
    /\ UNCHANGED <<clientOptions, client, containerVars, mapVars, bootVars, timeVars, pageVars>>

\* send after the await: a fulfilled promise is mapped and returned
sendReturns(id) ==
    /\ sends[id].pc = "settled"
    /\ sends[id].promise[1].state = "fulfilled"
    /\ sends' = [sends EXCEPT ![id] =
                    [@ EXCEPT !.pc = "resolved",
                              !.result = <<mapToHttpResponse(sends[id].promise[1].response)>>]]
    /\ UNCHANGED <<clientOptions, client, containerVars, mapVars, bootVars, timeVars, pageVars>>

\* Mutant of sendThrows: a rejected promise is answered by a second request
sendThrows_Retry(id) ==
    /\ sends[id].pc = "settled"
    /\ sends[id].promise[1].state = "rejected"
    /\ sends' = [sends EXCEPT ![id] =
                    [@ EXCEPT !.pc = "awaiting",
                              !.outbound = Append(@, OutboundMessage(sends[id].request[1]))]]
    /\ UNCHANGED <<clientOptions, client, containerVars, mapVars, bootVars, timeVars, pageVars>>

\* send after the await: a rejected promise throws out of send (no catch)
sendThrows(id) ==
    /\ sends[id].pc = "settled"
    /\ sends[id].promise[1].state = "rejected"
    /\ sends' = [sends EXCEPT ![id] =
                    [@ EXCEPT !.pc = "rejected",
                              !.error = <<sends[id].promise[1].error>>]]
    /\ UNCHANGED <<clientOptions, client, containerVars, mapVars, bootVars, timeVars, pageVars>>

\* The caller invokes ensureSuccessStatusCode() on the response it received
callerEnsures(id) ==
    /\ sends[id].pc = "resolved"
    /\ sends[id].ensure = <<>>
    /\ sends' = [sends EXCEPT ![id] =
                    [@ EXCEPT !.ensure = <<ensureSuccessStatusCode(sends[id].result[1])>>]]
    /\ UNCHANGED <<clientOptions, client, containerVars, mapVars, bootVars, timeVars, pageVars>>

(***************************************************************************)
(* mapToHttpResponse and ensureSuccessStatusCode on arbitrary responses    *)
(***************************************************************************)
MapStatuses == {100, 199, 200, 201, 204, 299, 300, 301, 400, 404, 500, 599}
MapStatusTexts == {"", "OK", "Not Found"}
MapData == {"", "payload"}

applyMapToHttpResponse(response) ==
    /\ mapped' = <<mapToHttpResponse(response)>>
    /\ ensured' = <<>>
    /\ UNCHANGED <<containerVars, httpVars, authVars, bootVars, timeVars, pageVars>>

applyEnsureSuccessStatusCode ==
    /\ mapped # <<>>
    /\ ensured = <<>>
    /\ ensured' = <<ensureSuccessStatusCode(mapped[1])>>
    /\ UNCHANGED <<mapped, containerVars, httpVars, authVars, bootVars, timeVars, pageVars>>

(***************************************************************************)
(* Strings whose characters matter (the AuthConfig values) are sequences   *)
(* of one-character strings; Str gives the string.                         *)
(***************************************************************************)
RECURSIVE Str(_)
Str(cs) == IF cs = <<>> THEN "" ELSE Head(cs) \o Str(Tail(cs))

Digits == {"0", "1", "2", "3", "4", "5", "6", "7", "8", "9"}
LowerCase ==
    {"a", "b", "c", "d", "e", "f", "g", "h", "i", "j", "k", "l", "m",
     "n", "o", "p", "q", "r", "s", "t", "u", "v", "w", "x", "y", "z"}
UpperCase ==
    {"A", "B", "C", "D", "E", "F", "G", "H", "I", "J", "K", "L", "M",
     "N", "O", "P", "Q", "R", "S", "T", "U", "V", "W", "X", "Y", "Z"}

\* application/x-www-form-urlencoded: the characters left as they are
FormUnreserved == Digits \cup LowerCase \cup UpperCase \cup {"*", "-", ".", "_"}

\* ASCII code of the other characters the AuthConfig values use
CharCode(c) ==
    CASE c = " " -> 32
      [] c = "%" -> 37
      [] c = "&" -> 38
      [] c = "+" -> 43
      [] c = "/" -> 47
      [] c = ":" -> 58
      [] c = "=" -> 61
      [] c = "?" -> 63
      [] c = "@" -> 64
      [] c = "~" -> 126

HexDigit(n) ==
    <<"0", "1", "2", "3", "4", "5", "6", "7", "8", "9",
      "A", "B", "C", "D", "E", "F">>[n + 1]

\* Mutant of FormEncodeChar: encodeURIComponent's rules (space as %20, the
\* characters ~ and * handled the other way round)
FormEncodeChar_EncodeURIComponent(c) ==
    IF c \in (FormUnreserved \ {"*"}) \cup {"~"} THEN c
    ELSE IF c = "*" THEN "%2A"
    ELSE "%" \o HexDigit(CharCode(c) \div 16) \o HexDigit(CharCode(c) % 16)

\* The serializer's byte encoding of one character
FormEncodeChar(c) ==
    IF c \in FormUnreserved THEN c
    ELSE IF c = " " THEN "+"
    ELSE "%" \o HexDigit(CharCode(c) \div 16) \o HexDigit(CharCode(c) % 16)

RECURSIVE FormEncode(_)
FormEncode(cs) ==
    IF cs = <<>> THEN "" ELSE FormEncodeChar(Head(cs)) \o FormEncode(Tail(cs))

\* URLSearchParams.prototype.toString on a list of <<name, value>> pairs
RECURSIVE URLSearchParamsToString(_)
URLSearchParamsToString(params) ==
    IF params = <<>> THEN ""
    ELSE FormEncode(params[1][1]) \o "=" \o FormEncode(params[1][2])
            \o (IF Len(params) > 1 THEN "&" ELSE "")
            \o URLSearchParamsToString(Tail(params))

(***************************************************************************)
(* AuthorizationService (authorization-service.ts) and TimeProvider        *)
(***************************************************************************)
DefaultScope == <<"h", "t", "t", "p", "s", ":", "/", "/", "g", "r", "a", "p", "h", ".", "m", "i", "c", "r", "o", "s", "o", "f", "t", ".", "c", "o", "m", "/", ".", "d", "e", "f", "a", "u", "l", "t">>

AuthConfig(tenantId, clientId, clientSecret, scope) ==
    [tenantId |-> tenantId, clientId |-> clientId,
     clientSecret |-> clientSecret, scope |-> scope]

\* The configuration of the service's test, one with characters the form
\* encoding changes, and the one of an unconfigured environment
TestAuthConfig ==
    AuthConfig(<<"t", "e", "s", "t", "-", "t", "e", "n", "a", "n", "t", "-", "i", "d">>,
               <<"t", "e", "s", "t", "-", "c", "l", "i", "e", "n", "t", "-", "i", "d">>,
               <<"t", "e", "s", "t", "-", "c", "l", "i", "e", "n", "t", "-", "s", "e", "c", "r", "e", "t">>,
               DefaultScope)
SpecialAuthConfig ==
    AuthConfig(<<"t", "1">>,
               <<"a", " ", "b">>,
               <<"s", "&", "c", "=", "r", "+", "t", "%">>,
               <<"a", "p", "i", ":", "/", "/", "x", "/", "~", "u", "*">>)
EmptyAuthConfig == AuthConfig(<<>>, <<>>, <<>>, DefaultScope)
AuthConfigs == {TestAuthConfig, SpecialAuthConfig, EmptyAuthConfig}

\* constructor
AuthorizationServiceConstructor(config) == [config |-> config]

\* createTokenRequestBody
createTokenRequestBody(config) ==
    URLSearchParamsToString(
        << <<<<"g", "r", "a", "n", "t", "_", "t", "y", "p", "e">>, <<"c", "l", "i", "e", "n", "t", "_", "c", "r", "e", "d", "e", "n", "t", "i", "a", "l", "s">>>>,
           <<<<"c", "l", "i", "e", "n", "t", "_", "i", "d">>, config.clientId>>,
           <<<<"c", "l", "i", "e", "n", "t", "_", "s", "e", "c", "r", "e", "t">>, config.clientSecret>>,
           <<<<"s", "c", "o", "p", "e">>, config.scope>> >>)

\* createTokenRequest
createTokenRequest(config) ==
    [ url |-> "https://login.microsoftonline.com/" \o Str(config.tenantId)
                  \o "/oauth2/v2.0/token",
      method |-> "POST",
      headers |-> <<[h \in {"Content-Type"} |-> "application/x-www-form-urlencoded"]>>,
      body |-> <<createTokenRequestBody(config)>> ]

\* Bodies of the token endpoint's answers (JSON text on the wire) and the
\* AADTokenResponse the client deserializes them to
TokenBodies == {"{access_token:X,token_type:Bearer,expires_in:3600}",
                "{access_token:Y,token_type:Bearer,expires_in:7200}"}
ErrorBody == "{error:invalid_client}"
AADTokenResponse(data) ==
    CASE data = "{access_token:X,token_type:Bearer,expires_in:3600}" ->
            [access_token |-> "X", token_type |-> "Bearer", expires_in |-> 3600]
      [] data = "{access_token:Y,token_type:Bearer,expires_in:7200}" ->
            [access_token |-> "Y", token_type |-> "Bearer", expires_in |-> 7200]
      [] data = "{access_token:Z,token_type:Bearer,expires_in:1}" ->
            [access_token |-> "Z", token_type |-> "Bearer", expires_in |-> 1]

TokenStatuses == {200, 400, 500}
TokenExchanges ==
    {Completed(AxiosResponse(200, StatusText(200), body)) : body \in TokenBodies}
        \cup {Completed(AxiosResponse(c, StatusText(c), ErrorBody)) :
                 c \in TokenStatuses \ {200}}
        \cup {Failed(e) : e \in TransportErrors}

\* TimeProvider: SystemTimeProvider reads the ambient clock; a substituted
\* implementation (the tests' mock) answers a fixed instant
TickMs == 500
SystemTimeProvider == [kind |-> "system", fixed |-> 0]
FixedTimeProvider(t) == [kind |-> "fixed", fixed |-> t]
TimeProviders == {SystemTimeProvider, FixedTimeProvider(43200000)}

\* TimeProvider.now
now(tp) == IF tp.kind = "system" THEN clock ELSE tp.fixed

\* A Date object holds a time value: milliseconds since the epoch, kept as
\* day number and millisecond within the day, or NaN for an Invalid Date.
\* new Date(tv) clips: a time value beyond +-8.64e15 ms (100,000,000 days)
\* becomes NaN.
MsPerDay == 86400000
MaxDay == 100000000
InvalidDate == [valid |-> FALSE, day |-> 0, ms |-> 0]
TimeValue(day, ms) == [valid |-> TRUE, day |-> day, ms |-> ms]
InDateRange(day, ms) ==
    \/ day >= -MaxDay /\ day < MaxDay
    \/ day = MaxDay /\ ms = 0
\* new Date(value)
NewDate(day, ms) == IF InDateRange(day, ms) THEN TimeValue(day, ms) ELSE InvalidDate
\* new Date(date.getTime() + delta); NaN + delta is NaN
NewDateAfter(date, delta) ==
    IF ~date.valid
    THEN InvalidDate
    ELSE LET total == date.ms + delta
         IN  NewDate(date.day + (total \div MsPerDay), total % MsPerDay)
\* Dates near the epoch as a number of milliseconds and back
DateOfMs(t) == NewDate(t \div MsPerDay, t % MsPerDay)
getTime(date) == date.day * MsPerDay + date.ms

\* TimeProvider.addSeconds
addSeconds(date, seconds) == NewDateAfter(date, seconds * 1000)
\* TimeProvider.addMinutes
addMinutes(date, minutes) == NewDateAfter(date, minutes * 60 * 1000)

NoToken == [accessToken |-> "", tokenType |-> "", expiresIn |-> 0, expiresAt |-> 0]

\* Mutant of mapToAuthToken: the expiry is computed from the ambient clock
mapToAuthToken_AmbientClock(aadResponse) ==
    [ accessToken |-> aadResponse.access_token,
      tokenType |-> aadResponse.token_type,
      expiresIn |-> aadResponse.expires_in,
      expiresAt |-> getTime(addSeconds(DateOfMs(clock), aadResponse.expires_in)) ]

\* mapToAuthToken
mapToAuthToken(aadResponse) ==
    LET expiresAt == getTime(addSeconds(DateOfMs(now(timeProvider)), aadResponse.expires_in))
    IN  [ accessToken |-> aadResponse.access_token,
          tokenType |-> aadResponse.token_type,
          expiresIn |-> aadResponse.expires_in,
          expiresAt |-> expiresAt ]

\* new Error(message), as thrown by ensureSuccessStatusCode
ErrorOf(message) == [name |-> "Error", code |-> "", message |-> message]

TokenIds == 1..MaxSends
IdleToken ==
    [ pc |-> "idle", send |-> 0, ensure |-> <<>>, nowCalls |-> <<>>,
      result |-> <<>>, error |-> <<>> ]

\* The send call a new getToken() call makes: the first one not yet used
NextSend == CHOOSE id \in SendIds :
                /\ sends[id].pc = "idle"
                /\ \A j \in SendIds : j < id => sends[j].pc # "idle"

\* Mutant of getToken: a token obtained by an earlier call is returned again
getToken_Cached(id) ==
    /\ tokens[id].pc = "idle"
    /\ \A j \in TokenIds : j < id => tokens[j].pc # "idle"
    /\ \E sid \in SendIds : sends[sid].pc = "idle"
    /\ IF \E j \in TokenIds : tokens[j].pc = "resolved"
       THEN /\ tokens' = [tokens EXCEPT ![id] =
                  [@ EXCEPT !.pc = "resolved",
                            !.result = tokens[CHOOSE j \in TokenIds :
                                                 tokens[j].pc = "resolved"].result]]
            /\ UNCHANGED <<httpVars, containerVars, mapVars, bootVars, timeVars, pageVars>>
       ELSE /\ send(NextSend, createTokenRequest(authService.config))
            /\ tokens' = [tokens EXCEPT ![id] =
                  [@ EXCEPT !.pc = "awaiting", !.send = NextSend]]
    /\ UNCHANGED <<authService, timeProvider, clock>>

\* Mutant of getToken: a call made while another is in flight joins its request
getToken_SingleFlight(id) ==
    /\ tokens[id].pc = "idle"
    /\ \A j \in TokenIds : j < id => tokens[j].pc # "idle"
    /\ \E sid \in SendIds : sends[sid].pc = "idle"
    /\ IF \E j \in TokenIds : tokens[j].pc = "awaiting"
       THEN /\ tokens' = [tokens EXCEPT ![id] =
                  [@ EXCEPT !.pc = "awaiting",
                            !.send = tokens[CHOOSE j \in TokenIds :
                                               tokens[j].pc = "awaiting"].send]]
            /\ UNCHANGED <<httpVars, containerVars, mapVars, bootVars, timeVars, pageVars>>
       ELSE /\ send(NextSend, createTokenRequest(authService.config))
            /\ tokens' = [tokens EXCEPT ![id] =
                  [@ EXCEPT !.pc = "awaiting", !.send = NextSend]]
    /\ UNCHANGED <<authService, timeProvider, clock>>

\* getToken, up to the await: the request is built and handed to send
getToken(id) ==
    /\ tokens[id].pc = "idle"
    /\ \A j \in TokenIds : j < id => tokens[j].pc # "idle"
    /\ \E sid \in SendIds : sends[sid].pc = "idle"
    /\ send(NextSend, createTokenRequest(authService.config))
    /\ tokens' = [tokens EXCEPT ![id] = [@ EXCEPT !.pc = "awaiting", !.send = NextSend]]
    /\ UNCHANGED <<authService, timeProvider, clock>>

\* getToken after the await, send resolved: the success check, then the token
getTokenResumes(id) ==
    /\ tokens[id].pc = "awaiting"
    /\ sends[tokens[id].send].pc = "resolved"
    /\ LET response == sends[tokens[id].send].result[1]
           check == ensureSuccessStatusCode(response)
       IN  tokens' = [tokens EXCEPT ![id] =
              IF check.outcome = "threw"
              THEN [@ EXCEPT !.pc = "rejected",
                             !.ensure = <<check>>,
                             !.error = <<ErrorOf(check.message)>>]
              ELSE [@ EXCEPT !.pc = "resolved",
                             !.ensure = <<check>>,
                             !.nowCalls = Append(@, now(timeProvider)),
                             !.result = <<mapToAuthToken(AADTokenResponse(response.data))>>]]
    /\ UNCHANGED <<authService, timeProvider, clock, httpVars, containerVars, mapVars, bootVars, timeVars, pageVars>>

\* getToken after the await, send rejected: the error leaves getToken as it is
getTokenThrows(id) ==
    /\ tokens[id].pc = "awaiting"
    /\ sends[tokens[id].send].pc = "rejected"
    /\ tokens' = [tokens EXCEPT ![id] =
                    [@ EXCEPT !.pc = "rejected",
                              !.error = sends[tokens[id].send].error]]
    /\ UNCHANGED <<authService, timeProvider, clock, httpVars, containerVars, mapVars, bootVars, timeVars, pageVars>>

\* Time passes
Tick ==
    /\ clock < MaxTicks * TickMs
    /\ clock' = clock + TickMs
    /\ UNCHANGED <<authService, timeProvider, tokens, httpVars, containerVars, mapVars, bootVars, timeVars, pageVars>>

(***************************************************************************)
(* Bootstrap (registry.ts configureServices, main.tsx) and the service     *)
(* instances of the HttpClient component                                   *)
(***************************************************************************)
EnvNames == {"APP_TENANT_ID", "APP_CLIENT_ID", "APP_CLIENT_SECRET", "APP_SCOPE"}
RequiredEnvNames == {"APP_TENANT_ID", "APP_CLIENT_ID", "APP_CLIENT_SECRET"}

\* A variable is absent (<<>>) or set (<<value>>)
EnvValue(name) ==
    CASE name = "APP_TENANT_ID" -> <<"t", "1">>
      [] name = "APP_CLIENT_ID" -> <<"i", "d">>
      [] name = "APP_CLIENT_SECRET" -> <<"s", "3">>
      [] name = "APP_SCOPE" -> <<"a", "p", "i", ":", "/", "/", "x">>
Environments == [EnvNames -> {0, 1}]
EnvOf(present) == [name \in EnvNames |->
                      IF present[name] = 1 THEN <<EnvValue(name)>> ELSE <<>>]

\* import.meta.env.X || fallback: an absent or empty value gives the fallback
OrElse(value, fallback) ==
    IF value = <<>> \/ value[1] = <<>> THEN fallback ELSE value[1]

\* getAuthConfig
getAuthConfig(e) ==
    AuthConfig(OrElse(e["APP_TENANT_ID"], <<>>),
               OrElse(e["APP_CLIENT_ID"], <<>>),
               OrElse(e["APP_CLIENT_SECRET"], <<>>),
               OrElse(e["APP_SCOPE"], DefaultScope))

\* A constructed instance; a reference to it is its position in the heap
Instance(class, config, httpClient, timeProviderRef) ==
    [class |-> class, config |-> config,
     httpClient |-> httpClient, timeProvider |-> timeProviderRef]
NewSystemTimeProvider == Instance("SystemTimeProvider", <<>>, 0, 0)
NewHttpClient == Instance("HttpClient", <<>>, 0, 0)
NewAuthorizationService(config, httpClient, timeProviderRef) ==
    Instance("AuthorizationService", <<config>>, httpClient, timeProviderRef)

\* Which constructor, if any, throws during a run of configureServices
Throwers == {"none", "SystemTimeProvider", "HttpClient", "AuthorizationService"}
ConstructorError(class) ==
    [name |-> "Error", code |-> "", message |-> class \o " constructor failed"]

NotBooted == [pc |-> "start", container |-> <<>>, error |-> <<>>]

\* What the calls serviceContainer.register(...) of configureServices add to
\* the record of calls
BootRegisterCalls(tp, hc, as) ==
    << Call("register", "TimeProvider", JSObject(tp), Returned(JSUndefined)),
       Call("register", "HttpClient", JSObject(hc), Returned(JSUndefined)),
       Call("register", "AuthService", JSObject(as), Returned(JSUndefined)) >>

\* Mutant of configureServices: a constructor's error is caught and whatever
\* was built so far is registered and returned
configureServices_CatchesErrors(thrower) ==
    /\ boot.pc = "start"
    /\ heap' = heap \o (IF thrower = "SystemTimeProvider" THEN <<>>
                        ELSE <<NewSystemTimeProvider>>)
    /\ services' = IF thrower = "SystemTimeProvider" THEN EmptyMap
                   ELSE MapSet(EmptyMap, "TimeProvider", JSObject(Len(heap) + 1))
    /\ boot' = [pc |-> IF thrower = "none" THEN "returned" ELSE "threw",
                container |-> <<"serviceContainer">>,
                error |-> <<>>]
    /\ UNCHANGED <<log, env, ui, uiCalls, httpVars, mapVars, authVars, timeVars, pageVars>>

\* Mutant of configureServices: the token issuer is given a transport client
\* of its own instead of the registered one
configureServices_SecondHttpClient(thrower) ==
    /\ boot.pc = "start"
    /\ thrower = "none"
    /\ LET tp == Len(heap) + 1
           hc == Len(heap) + 2
           as == Len(heap) + 4
       IN  /\ heap' = heap \o <<NewSystemTimeProvider, NewHttpClient, NewHttpClient,
                                NewAuthorizationService(getAuthConfig(env), hc + 1, tp)>>
           /\ services' = MapSet(MapSet(MapSet(EmptyMap,
                              "TimeProvider", JSObject(tp)),
                              "HttpClient", JSObject(hc)),
                              "AuthService", JSObject(as))
           /\ log' = log \o BootRegisterCalls(tp, hc, as)
    /\ boot' = [pc |-> "returned", container |-> <<"serviceContainer">>, error |-> <<>>]
    /\ clientOptions' = <<>>
    /\ client' = HttpClientConstructor(<<>>)
    /\ timeProvider' = SystemTimeProvider
    /\ authService' = AuthorizationServiceConstructor(getAuthConfig(env))
    /\ UNCHANGED <<env, ui, uiCalls, sends, mapVars, clock, tokens, timeVars, pageVars>>

\* configureServices, called once by main.tsx: the container, the three
\* constructors in order, the three registrations, the return.  There is no
\* try/catch: a constructor that throws ends the call, and the local
\* container is lost with it.
configureServices(thrower) ==
    /\ boot.pc = "start"
    /\ IF thrower = "none"
       THEN LET tp == Len(heap) + 1
                hc == Len(heap) + 2
                as == Len(heap) + 3
            IN  /\ heap' = heap \o <<NewSystemTimeProvider, NewHttpClient,
                                     NewAuthorizationService(getAuthConfig(env), hc, tp)>>
                /\ services' = MapSet(MapSet(MapSet(EmptyMap,
                                   "TimeProvider", JSObject(tp)),
                                   "HttpClient", JSObject(hc)),
                                   "AuthService", JSObject(as))
                /\ log' = log \o BootRegisterCalls(tp, hc, as)
                /\ boot' = [pc |-> "returned", container |-> <<"serviceContainer">>,
                            error |-> <<>>]
                /\ clientOptions' = <<>>
                /\ client' = HttpClientConstructor(<<>>)
                /\ timeProvider' = SystemTimeProvider
                /\ authService' = AuthorizationServiceConstructor(getAuthConfig(env))
       ELSE /\ heap' = heap \o
                  (CASE thrower = "SystemTimeProvider" -> <<>>
                     [] thrower = "HttpClient" -> <<NewSystemTimeProvider>>
                     [] thrower = "AuthorizationService" ->
                            <<NewSystemTimeProvider, NewHttpClient>>)
            /\ boot' = [pc |-> "threw", container |-> <<>>,
                        error |-> <<ConstructorError(thrower)>>]
            /\ UNCHANGED <<services, log, clientOptions, client, timeProvider, authService>>
    /\ UNCHANGED <<env, ui, uiCalls, sends, mapVars, clock, tokens, timeVars, pageVars>>

\* useService (the hook the provider offers): a lookup in the container
useService(key) ==
    IF boot.container = <<>>
    THEN Threw("useService must be used within a ServiceProvider")
    ELSE GetOutcome(services, key)

NotMounted == [renders |-> 0, httpService |-> 0, timeProvider |-> 0, authService |-> 0]

\* A render of the HttpClient component under the provider main.tsx mounts
\* once configureServices has returned: the function body constructs its
\* own three services each time it runs, the token issuer from the
\* component's authConfig state (its initial value on the first render, any
\* value set through the form afterwards)
renderHttpClient ==
    /\ boot.pc = "returned"
    /\ ui.renders < MaxRenders
    /\ \E authConfig \in (IF ui.renders = 0 THEN {EmptyAuthConfig} ELSE AuthConfigs) :
       LET hs == Len(heap) + 1
           tp == Len(heap) + 2
           as == Len(heap) + 3
       IN  /\ heap' = heap \o <<NewHttpClient, NewSystemTimeProvider,
                                NewAuthorizationService(authConfig, hs, tp)>>
           /\ ui' = [renders |-> ui.renders + 1, httpService |-> hs,
                     timeProvider |-> tp, authService |-> as]
    /\ UNCHANGED <<env, boot, uiCalls, containerVars, httpVars, mapVars, authVars, timeVars, pageVars>>

UiCall(op, instance) == [op |-> op, instance |-> instance]

\* handleGetToken: the token is fetched through the render's authService
handleGetToken ==
    /\ ui.renders > 0
    /\ Len(uiCalls) < MaxUiCalls
    /\ uiCalls' = Append(uiCalls, UiCall("getToken", ui.authService))
    /\ UNCHANGED <<env, heap, boot, ui, containerVars, httpVars, mapVars, authVars, timeVars, pageVars>>

\* handleSendRequest: the request is sent through the render's httpService
handleSendRequest ==
    /\ ui.renders > 0
    /\ Len(uiCalls) < MaxUiCalls
    /\ uiCalls' = Append(uiCalls, UiCall("send", ui.httpService))
    /\ UNCHANGED <<env, heap, boot, ui, containerVars, httpVars, mapVars, authVars, timeVars, pageVars>>

(***************************************************************************)
(* Callers of SystemTimeProvider.addSeconds / addMinutes                   *)
(***************************************************************************)
MaxTimeCalls == 2   \* addSeconds / addMinutes calls in one run

\* Instants a caller holds: the epoch, the tests' base date
\* 2023-01-01T12:00:00Z, and the ends of the range of Date
Instants ==
    { TimeValue(0, 0),
      TimeValue(19358, 43200000),
      TimeValue(MaxDay - 1, MsPerDay - 1000),
      TimeValue(MaxDay, 0),
      TimeValue(-MaxDay, 0) }
Amounts == {-30, -1, 0, 1, 30}

TimeCall(op, date, amount, before, result) ==
    [op |-> op, date |-> date, amount |-> amount, before |-> before, result |-> result]

\* Mutant of callAddSeconds: the argument is moved (setTime) and returned
callAddSeconds_InPlace(ref, seconds) ==
    /\ Len(timeCalls) < MaxTimeCalls
    /\ dates' = [dates EXCEPT ![ref] = addSeconds(dates[ref], seconds)]
    /\ timeCalls' = Append(timeCalls,
           TimeCall("addSeconds", ref, seconds, dates[ref], ref))
    /\ UNCHANGED <<containerVars, httpVars, mapVars, authVars, bootVars, pageVars>>

\* result = timeProvider.addSeconds(date, seconds): a Date object is created
callAddSeconds(ref, seconds) ==
    /\ Len(timeCalls) < MaxTimeCalls
    /\ dates' = Append(dates, addSeconds(dates[ref], seconds))
    /\ timeCalls' = Append(timeCalls,
           TimeCall("addSeconds", ref, seconds, dates[ref], Len(dates) + 1))
    /\ UNCHANGED <<containerVars, httpVars, mapVars, authVars, bootVars, pageVars>>

\* result = timeProvider.addMinutes(date, minutes): a Date object is created
callAddMinutes(ref, minutes) ==
    /\ Len(timeCalls) < MaxTimeCalls
    /\ dates' = Append(dates, addMinutes(dates[ref], minutes))
    /\ timeCalls' = Append(timeCalls,
           TimeCall("addMinutes", ref, minutes, dates[ref], Len(dates) + 1))
    /\ UNCHANGED <<containerVars, httpVars, mapVars, authVars, bootVars, pageVars>>

(***************************************************************************)
(* The HttpClient component (HttpClient.tsx) with its RequestBuilder and   *)
(* AuthConfiguration children: React state, the output of the last render, *)
(* and the asynchronous handlers in flight                                 *)
(***************************************************************************)
\* String.prototype.trim
WhiteSpace == {" ", "\t", "\n"}
RECURSIVE trimStart(_)
trimStart(cs) ==
    IF cs # <<>> /\ Head(cs) \in WhiteSpace THEN trimStart(Tail(cs)) ELSE cs
RECURSIVE trimEnd(_)
trimEnd(cs) ==
    IF cs # <<>> /\ cs[Len(cs)] \in WhiteSpace
    THEN trimEnd(SubSeq(cs, 1, Len(cs) - 1))
    ELSE cs
trim(cs) == trimEnd(trimStart(cs))

\* What a user types or selects
UrlInputs == { <<>>, <<" ">>, <<" ", "/", "a", " ">> }
MethodInputs == {"GET", "POST"}
BodyInputs == {"{x}"}
FieldInputs == { <<"tenantId", <<"t", "1">> >> }

\* What the servers answer to the component's requests
PageExchanges ==
    { Completed(AxiosResponse(200, StatusText(200), "payload")),
      Completed(AxiosResponse(404, StatusText(404), "payload")),
      Failed([name |-> "AxiosError", code |-> "ERR_NETWORK", message |-> "Network Error"]) }
PageTokenExchanges ==
    { Completed(AxiosResponse(200, StatusText(200),
                              "{access_token:X,token_type:Bearer,expires_in:3600}")),
      Completed(AxiosResponse(200, StatusText(200),
                              "{access_token:Z,token_type:Bearer,expires_in:1}")),
      Completed(AxiosResponse(400, StatusText(400), ErrorBody)),
      Failed([name |-> "AxiosError", code |-> "ERR_NETWORK", message |-> "Network Error"]) }

\* useState initial values
InitialRequest ==
    [url |-> <<>>, method |-> "GET", headers |-> <<NoHeaders>>, body |-> <<>>]

\* Mutant of canSendRequest: the URL is not trimmed
canSendRequest_Untrimmed(request) == request.url # <<>>

\* canSendRequest
canSendRequest(request) == trim(request.url) # <<>>

\* isTokenValid, with the reading of timeProvider.now() made by the render
isTokenValid(authToken) ==
    authToken # <<>> /\ authToken[1].expiresAt > now(SystemTimeProvider)

\* What a render puts on the screen: the status line of AuthConfiguration and
\* the Send Request button
View(state) ==
    [ isTokenValid |-> isTokenValid(state.authToken),
      status |-> IF isTokenValid(state.authToken) THEN "Token Valid" ELSE "No Token",
      sendDisabled |-> ~canSendRequest(state.request) \/ state.isLoading,
      sendLabel |-> IF state.isLoading THEN "Sending..." ELSE "Send Request" ]

\* The component after state updates: it renders again, unless every setter
\* was given the value the state already had (React then keeps the output)
Commit(state, changed) ==
    IF changed THEN [state EXCEPT !.view = View(state)] ELSE state

\* The first render
InitialPage ==
    LET state == [ rendered |-> TRUE,
                   request |-> InitialRequest,
                   authConfig |-> EmptyAuthConfig,
                   response |-> <<>>,
                   authToken |-> <<>>,
                   isLoading |-> FALSE,
                   view |-> [isTokenValid |-> FALSE, status |-> "",
                             sendDisabled |-> TRUE, sendLabel |-> ""],
                   handlers |-> <<>>,
                   settled |-> <<>>,
                   unhandled |-> <<>> ]
    IN  Commit(state, TRUE)
NotRendered == [rendered |-> FALSE]

\* RequestBuilder.handleMethodChange
handleMethodChange(method) ==
    /\ page' = Commit([page EXCEPT !.request = [page.request EXCEPT !.method = method]], TRUE)
    /\ UNCHANGED <<containerVars, httpVars, mapVars, authVars, bootVars, timeVars>>

\* RequestBuilder.handleUrlChange
handleUrlChange(url) ==
    /\ page' = Commit([page EXCEPT !.request = [page.request EXCEPT !.url = url]], TRUE)
    /\ UNCHANGED <<containerVars, httpVars, mapVars, authVars, bootVars, timeVars>>

\* RequestBuilder.handleBodyChange; the textarea exists only while the
\* method is POST
handleBodyChange(body) ==
    /\ page.request.method = "POST"
    /\ page' = Commit([page EXCEPT !.request = [page.request EXCEPT !.body = <<body>>]], TRUE)
    /\ UNCHANGED <<containerVars, httpVars, mapVars, authVars, bootVars, timeVars>>

\* AuthConfiguration.handleFieldChange(field); the render that follows
\* constructs the AuthorizationService from the new configuration
handleFieldChange(field, value) ==
    /\ page' = Commit([page EXCEPT !.authConfig = [page.authConfig EXCEPT ![field] = value]], TRUE)
    /\ authService' = AuthorizationServiceConstructor(page'.authConfig)
    /\ UNCHANGED <<timeProvider, clock, tokens>>
    /\ UNCHANGED <<containerVars, httpVars, mapVars, bootVars, timeVars>>

\* A running handleGetToken / handleSendRequest: the call it awaits and what
\* its closure captured when the button was clicked
Handler(kind, call, request, authToken, clickedAt) ==
    [ kind |-> kind, call |-> call, request |-> request, authToken |-> authToken,
      clickedAt |-> clickedAt, overlapped |-> {}, done |-> FALSE ]
InFlight(p) == {h \in 1..Len(p.handlers) : ~p.handlers[h].done}
Start(p, handler) ==
    [p EXCEPT !.handlers = Append(@, [handler EXCEPT !.overlapped = InFlight(p)])]
Finish(p, h) ==
    [p EXCEPT !.handlers[h].done = TRUE, !.settled = Append(@, h)]

\* handleGetToken up to the await: setIsLoading(true); authService.getToken()
handleGetTokenStarts(id) ==
    /\ Len(page.handlers) < MaxSends
    /\ getToken(id)
    /\ page' = Commit(Start([page EXCEPT !.isLoading = TRUE],
                            Handler("getToken", id, <<>>, <<>>, clock)),
                      ~page.isLoading)

\* Mutant of handleGetTokenResumes: a failed fetch keeps the token held before
handleGetTokenResumes_KeepsTokenOnFailure(h) ==
    /\ h \in InFlight(page)
    /\ page.handlers[h].kind = "getToken"
    /\ tokens[page.handlers[h].call].pc \in {"resolved", "rejected"}
    /\ page' = Commit(Finish([page EXCEPT
                   !.authToken = IF tokens[page.handlers[h].call].pc = "resolved"
                                 THEN tokens[page.handlers[h].call].result
                                 ELSE @,
                   !.isLoading = FALSE], h), TRUE)
    /\ UNCHANGED <<containerVars, httpVars, mapVars, authVars, bootVars, timeVars>>

\* Mutant of handleGetTokenResumes: only the fetch started last may set the token
handleGetTokenResumes_LatestStartedWins(h) ==
    /\ h \in InFlight(page)
    /\ page.handlers[h].kind = "getToken"
    /\ tokens[page.handlers[h].call].pc \in {"resolved", "rejected"}
    /\ page' = Commit(Finish([page EXCEPT
                   !.authToken = IF \E g \in 1..Len(page.handlers) :
                                        g > h /\ page.handlers[g].kind = "getToken"
                                 THEN @
                                 ELSE tokens[page.handlers[h].call].result,
                   !.isLoading = FALSE], h), TRUE)
    /\ UNCHANGED <<containerVars, httpVars, mapVars, authVars, bootVars, timeVars>>

\* handleGetToken after the await: setAuthToken(token) when getToken
\* resolved, the catch branch (setAuthToken(null)) when it rejected, and
\* finally setIsLoading(false)
handleGetTokenResumes(h) ==
    /\ h \in InFlight(page)
    /\ page.handlers[h].kind = "getToken"
    /\ tokens[page.handlers[h].call].pc \in {"resolved", "rejected"}
    /\ LET resolved == tokens[page.handlers[h].call].pc = "resolved"
       IN  page' = Commit(Finish([page EXCEPT
                       !.authToken = IF resolved
                                     THEN tokens[page.handlers[h].call].result
                                     ELSE <<>>,
                       !.isLoading = FALSE], h),
                          resolved \/ page.authToken # <<>> \/ page.isLoading)
    /\ UNCHANGED <<containerVars, httpVars, mapVars, authVars, bootVars, timeVars>>

\* Mutant of requestWithAuth: the header is attached only while the token is valid
requestWithAuth_OnlyWhileValid(request, authToken) ==
    IF isTokenValid(authToken)
    THEN [request EXCEPT !.headers =
             << [h \in DOMAIN request.headers[1] \cup {"Authorization"} |->
                    IF h = "Authorization"
                    THEN authToken[1].tokenType \o " " \o authToken[1].accessToken
                    ELSE request.headers[1][h]] >>]
    ELSE request

\* requestWithAuth: { ...request, headers: { ...request.headers, Authorization } }
\* when a token is held, the request itself when none is
requestWithAuth(request, authToken) ==
    IF authToken # <<>>
    THEN [request EXCEPT !.headers =
             << [h \in DOMAIN request.headers[1] \cup {"Authorization"} |->
                    IF h = "Authorization"
                    THEN authToken[1].tokenType \o " " \o authToken[1].accessToken
                    ELSE request.headers[1][h]] >>]
    ELSE request

\* handleSendRequest up to the await, run by a click on the Send Request
\* button, which the last render left enabled
handleSendRequestStarts ==
    /\ ~page.view.sendDisabled
    /\ Len(page.handlers) < MaxSends
    /\ \E sid \in SendIds : sends[sid].pc = "idle"
    /\ send(NextSend, requestWithAuth(page.request, page.authToken))
    /\ page' = Commit(Start([page EXCEPT !.isLoading = TRUE],
                            Handler("send", NextSend, <<page.request>>,
                                    page.authToken, clock)),
                      ~page.isLoading)
    /\ UNCHANGED authVars

\* The response the catch branch of handleSendRequest builds for display
RequestFailedResponse(error) ==
    [ status |-> 0,
      statusText |-> "Request Failed",
      headers |-> NoHeaders,
      data |-> error.message,
      isSuccessStatusCode |-> FALSE,
      ensureSuccessStatusCode |->
          [ code |-> "", isSuccessStatusCode |-> FALSE, status |-> 0, statusText |-> "" ] ]

\* handleSendRequest after the await: setResponse(httpResponse) when send
\* resolved, the catch branch when it rejected, and finally setIsLoading(false)
handleSendRequestResumes(h) ==
    /\ h \in InFlight(page)
    /\ page.handlers[h].kind = "send"
    /\ sends[page.handlers[h].call].pc \in {"resolved", "rejected"}
    /\ LET call == sends[page.handlers[h].call]
       IN  page' = Commit(Finish([page EXCEPT
                       !.response = IF call.pc = "resolved"
                                    THEN call.result
                                    ELSE <<RequestFailedResponse(call.error[1])>>,
                       !.isLoading = FALSE], h), TRUE)
    /\ UNCHANGED <<containerVars, httpVars, mapVars, authVars, bootVars, timeVars>>

\* A continuation is ready to run: a promise has settled and the code
\* awaiting it has not resumed yet.  Continuations are microtasks; the event
\* loop runs them all before it takes the next event (a click, an input, the
\* arrival of a response).
ContinuationReady ==
    \/ \E id \in SendIds : sends[id].pc = "settled"
    \/ \E id \in TokenIds :
          /\ tokens[id].pc = "awaiting"
          /\ sends[tokens[id].send].pc \in {"resolved", "rejected"}
    \/ \E h \in InFlight(page) :
          \/ /\ page.handlers[h].kind = "getToken"
             /\ tokens[page.handlers[h].call].pc \in {"resolved", "rejected"}
          \/ /\ page.handlers[h].kind = "send"
             /\ sends[page.handlers[h].call].pc \in {"resolved", "rejected"}

\* The send call made by a getToken() call, as opposed to one the form made
IsTokenSend(sid) ==
    \E id \in TokenIds : tokens[id].pc # "idle" /\ tokens[id].send = sid

(***************************************************************************)
(* Specifications                                                          *)
(***************************************************************************)
Init ==
    /\ services = EmptyMap
    /\ log = <<>>
    /\ clientOptions = <<>>
    /\ client = HttpClientConstructor(<<>>)
    /\ sends = [id \in SendIds |-> IdleSend]
    /\ mapped = <<>>
    /\ ensured = <<>>
    /\ authService = AuthorizationServiceConstructor(EmptyAuthConfig)
    /\ timeProvider = SystemTimeProvider
    /\ clock = 0
    /\ tokens = [id \in TokenIds |-> IdleToken]
    /\ env = EnvOf([name \in EnvNames |-> 0])
    /\ heap = <<>>
    /\ boot = NotBooted
    /\ ui = NotMounted
    /\ uiCalls = <<>>
    /\ dates = <<>>
    /\ timeCalls = <<>>
    /\ page = NotRendered

InitHttp ==
    /\ services = EmptyMap
    /\ log = <<>>
    /\ clientOptions \in OptionsSet
    /\ client = HttpClientConstructor(clientOptions)
    /\ sends = [id \in SendIds |-> IdleSend]
    /\ mapped = <<>>
    /\ ensured = <<>>
    /\ authService = AuthorizationServiceConstructor(EmptyAuthConfig)
    /\ timeProvider = SystemTimeProvider
    /\ clock = 0
    /\ tokens = [id \in TokenIds |-> IdleToken]
    /\ env = EnvOf([name \in EnvNames |-> 0])
    /\ heap = <<>>
    /\ boot = NotBooted
    /\ ui = NotMounted
    /\ uiCalls = <<>>
    /\ dates = <<>>
    /\ timeCalls = <<>>
    /\ page = NotRendered

\* An AuthorizationService constructed with a configuration, an HttpClient
\* and a TimeProvider
InitAuth ==
    /\ services = EmptyMap
    /\ log = <<>>
    /\ clientOptions = <<>>
    /\ client = HttpClientConstructor(<<>>)
    /\ sends = [id \in SendIds |-> IdleSend]
    /\ mapped = <<>>
    /\ ensured = <<>>
    /\ \E config \in AuthConfigs : authService = AuthorizationServiceConstructor(config)
    /\ timeProvider \in TimeProviders
    /\ clock = 0
    /\ tokens = [id \in TokenIds |-> IdleToken]
    /\ env = EnvOf([name \in EnvNames |-> 0])
    /\ heap = <<>>
    /\ boot = NotBooted
    /\ ui = NotMounted
    /\ uiCalls = <<>>
    /\ dates = <<>>
    /\ timeCalls = <<>>
    /\ page = NotRendered

\* Process start: an environment, nothing constructed yet
InitBoot ==
    /\ services = EmptyMap
    /\ log = <<>>
    /\ clientOptions = <<>>
    /\ client = HttpClientConstructor(<<>>)
    /\ sends = [id \in SendIds |-> IdleSend]
    /\ mapped = <<>>
    /\ ensured = <<>>
    /\ authService = AuthorizationServiceConstructor(EmptyAuthConfig)
    /\ timeProvider = SystemTimeProvider
    /\ clock = 0
    /\ tokens = [id \in TokenIds |-> IdleToken]
    /\ \E present \in Environments : env = EnvOf(present)
    /\ heap = <<>>
    /\ boot = NotBooted
    /\ ui = NotMounted
    /\ uiCalls = <<>>
    /\ dates = <<>>
    /\ timeCalls = <<>>
    /\ page = NotRendered

NextContainer ==
    \/ \E name \in Names, instance \in Instances : register(name, instance)
    \/ \E name \in Names : get(name)
    \/ \E name \in Names : has(name)
    \/ clear

NextHttp ==
    \/ \E id \in SendIds, request \in Requests :
          send(id, request) /\ UNCHANGED <<authVars, pageVars>>
    \/ \E id \in SendIds, exchange \in Exchanges :
          requestSettles(id, exchange) /\ UNCHANGED authVars
    \/ \E id \in SendIds : sendReturns(id) /\ UNCHANGED authVars
    \/ \E id \in SendIds : sendThrows(id) /\ UNCHANGED authVars
    \/ \E id \in SendIds : callerEnsures(id) /\ UNCHANGED authVars

NextAuth ==
    \/ \E id \in TokenIds : getToken(id) /\ UNCHANGED pageVars
    \/ \E id \in SendIds, exchange \in TokenExchanges :
          requestSettles(id, exchange) /\ UNCHANGED authVars
    \/ \E id \in SendIds : sendReturns(id) /\ UNCHANGED authVars
    \/ \E id \in SendIds : sendThrows(id) /\ UNCHANGED authVars
    \/ \E id \in TokenIds : getTokenResumes(id)
    \/ \E id \in TokenIds : getTokenThrows(id)
    \/ Tick

NextMap ==
    \/ \E c \in MapStatuses, t \in MapStatusTexts, d \in MapData :
          applyMapToHttpResponse(AxiosResponse(c, t, d))
    \/ applyEnsureSuccessStatusCode

\* A caller holding one Date
InitTime ==
    /\ services = EmptyMap
    /\ log = <<>>
    /\ clientOptions = <<>>
    /\ client = HttpClientConstructor(<<>>)
    /\ sends = [id \in SendIds |-> IdleSend]
    /\ mapped = <<>>
    /\ ensured = <<>>
    /\ authService = AuthorizationServiceConstructor(EmptyAuthConfig)
    /\ timeProvider = SystemTimeProvider
    /\ clock = 0
    /\ tokens = [id \in TokenIds |-> IdleToken]
    /\ env = EnvOf([name \in EnvNames |-> 0])
    /\ heap = <<>>
    /\ boot = NotBooted
    /\ ui = NotMounted
    /\ uiCalls = <<>>
    /\ \E t \in Instants : dates = <<t>>
    /\ timeCalls = <<>>
    /\ page = NotRendered

NextTime ==
    \/ \E ref \in 1..Len(dates), seconds \in Amounts : callAddSeconds(ref, seconds)
    \/ \E ref \in 1..Len(dates), minutes \in Amounts : callAddMinutes(ref, minutes)

\* The component after its first render
InitPage ==
    /\ services = EmptyMap
    /\ log = <<>>
    /\ clientOptions = <<>>
    /\ client = HttpClientConstructor(<<>>)
    /\ sends = [id \in SendIds |-> IdleSend]
    /\ mapped = <<>>
    /\ ensured = <<>>
    /\ authService = AuthorizationServiceConstructor(EmptyAuthConfig)
    /\ timeProvider = SystemTimeProvider
    /\ clock = 0
    /\ tokens = [id \in TokenIds |-> IdleToken]
    /\ env = EnvOf([name \in EnvNames |-> 0])
    /\ heap = <<>>
    /\ boot = NotBooted
    /\ ui = NotMounted
    /\ uiCalls = <<>>
    /\ dates = <<>>
    /\ timeCalls = <<>>
    /\ page = InitialPage

NextPage ==
    \/ \E method \in MethodInputs : ~ContinuationReady /\ handleMethodChange(method)
    \/ \E url \in UrlInputs : ~ContinuationReady /\ handleUrlChange(url)
    \/ \E body \in BodyInputs : ~ContinuationReady /\ handleBodyChange(body)
    \/ \E input \in FieldInputs :
          ~ContinuationReady /\ handleFieldChange(input[1], input[2])
    \/ \E id \in TokenIds : ~ContinuationReady /\ handleGetTokenStarts(id)
    \/ ~ContinuationReady /\ handleSendRequestStarts
    \/ \E id \in SendIds, exchange \in PageTokenExchanges :
          /\ ~ContinuationReady
          /\ IsTokenSend(id)
          /\ requestSettles(id, exchange)
          /\ UNCHANGED authVars
    \/ \E id \in SendIds, exchange \in PageExchanges :
          /\ ~ContinuationReady
          /\ ~IsTokenSend(id)
          /\ requestSettles(id, exchange)
          /\ UNCHANGED authVars
    \/ \E id \in SendIds : sendReturns(id) /\ UNCHANGED authVars
    \/ \E id \in SendIds : sendThrows(id) /\ UNCHANGED authVars
    \/ \E id \in TokenIds : getTokenResumes(id)
    \/ \E id \in TokenIds : getTokenThrows(id)
    \/ \E h \in 1..Len(page.handlers) : handleGetTokenResumes(h)
    \/ \E h \in 1..Len(page.handlers) : handleSendRequestResumes(h)
    \/ ~ContinuationReady /\ Tick

NextBoot ==
    \/ \E thrower \in Throwers : configureServices(thrower)
    \/ renderHttpClient
    \/ handleGetToken
    \/ handleSendRequest

SpecContainer == Init /\ [][NextContainer]_vars
SpecHttp == InitHttp /\ [][NextHttp]_vars
SpecMap == Init /\ [][NextMap]_vars
SpecAuth == InitAuth /\ [][NextAuth]_vars
SpecBoot == InitBoot /\ [][NextBoot]_vars
SpecTime == InitTime /\ [][NextTime]_vars
SpecPage == InitPage /\ [][NextPage]_vars

(***************************************************************************)
(* Properties of the service container (checked under SpecContainer)       *)
(***************************************************************************)
Calls == 1..Len(log)
Last == log[Len(log)]
JSTrue == JSBoolean(TRUE)
JSFalse == JSBoolean(FALSE)

\* name was registered before call i and no clear() came in between
RegisteredBefore(i, name) ==
    \E j \in 1..(i - 1) :
        /\ log[j].op = "register"
        /\ log[j].name = name
        /\ \A l \in (j + 1)..(i - 1) : log[l].op # "clear"

\* call i is the registration of name that is in force at the end of the log
InForce(i, name) ==
    /\ log[i].op = "register"
    /\ log[i].name = name
    /\ \A l \in (i + 1)..Len(log) :
          log[l].op # "clear" /\ ~(log[l].op = "register" /\ log[l].name = name)

\* the step is a call of get or has
ReadStep ==
    /\ Len(log') = Len(log) + 1
    /\ log'[Len(log')].op \in {"get", "has"}

\* C1: for every key k and every instance v, falsy instances included, the
\* call right after register(k, v) sees it: has(k) returns true and get(k)
\* returns v itself, without throwing.
C1_RegisterThenHasAndGet ==
    \A i \in Calls :
        (i > 1 /\ log[i - 1].op = "register" /\ log[i].name = log[i - 1].name) =>
            /\ log[i].op = "has" => log[i].result = Returned(JSTrue)
            /\ log[i].op = "get" => log[i].result = Returned(log[i - 1].instance)

\* C2: get(k) on a key that was never registered, or that a clear() removed,
\* throws an Error with the message "Service '<k>' not registered", and the
\* failed lookup leaves the registry contents unchanged.
C2_GetUnregisteredFails ==
    /\ [](\A i \in Calls :
            (log[i].op = "get" /\ ~RegisteredBefore(i, log[i].name)) =>
                log[i].result = Threw("Service '" \o log[i].name \o "' not registered"))
    /\ [][(ReadStep /\ log'[Len(log')].result.outcome = "threw") =>
              services' = services]_vars

\* C2 witness: a key is registered, removed by clear(), then looked up, and
\* the lookup threw
C2_Witness ==
    \E i \in Calls :
        /\ log[i].op = "get"
        /\ ~RegisteredBefore(i, log[i].name)
        /\ \E j \in 1..(i - 1) : log[j].op = "register" /\ log[j].name = log[i].name
        /\ log[i].result.outcome = "threw"

\* C3: in every reachable state and for every key, has(k) is true exactly
\* when get(k) succeeds, and has(k) is false exactly when get(k) fails with
\* the not-registered error; has(k) true with get(k) throwing never happens.
C3_HasIffGetSucceeds ==
    \A name \in Names :
        /\ HasOutcome(services, name) = Returned(JSTrue)
              <=> GetOutcome(services, name).outcome = "returned"
        /\ HasOutcome(services, name) = Returned(JSFalse)
              <=> GetOutcome(services, name)
                      = Threw("Service '" \o name \o "' not registered")

\* C4: clear() never fails; after it has(k) is false and get(k) fails for
\* every key, whatever was registered before, until the key is registered
\* again; and a key registered again after a clear() is present again.
C4_ClearRemovesEverything ==
    /\ \A i \in Calls : log[i].op = "clear" => log[i].result = Returned(JSUndefined)
    /\ (log # <<>> /\ Last.op = "clear") =>
          \A name \in Names :
              /\ HasOutcome(services, name) = Returned(JSFalse)
              /\ GetOutcome(services, name).outcome = "threw"
    /\ \A i \in Calls :
          (log[i].op \in {"get", "has"} /\ ~RegisteredBefore(i, log[i].name)) =>
              /\ log[i].op = "has" => log[i].result = Returned(JSFalse)
              /\ log[i].op = "get" => log[i].result.outcome = "threw"
    /\ (log # <<>> /\ Last.op = "register") =>
          /\ Last.result = Returned(JSUndefined)
          /\ HasOutcome(services, Last.name) = Returned(JSTrue)

\* C4 witness: a key was registered, clear() ran, and has() of that key was
\* then called
C4_Witness ==
    \E i \in Calls :
        /\ log[i].op = "has"
        /\ i > 2
        /\ log[i - 1].op = "clear"
        /\ log[i - 2].op = "register"
        /\ log[i - 2].name = log[i].name

\* C5: register never fails and overwrites: after any sequence of calls,
\* get(k) returns the instance of the most recent register under k, for
\* every key k (so a register changes no other key's entry).
C5_LastRegistrationWins ==
    /\ \A i \in Calls : log[i].op = "register" => log[i].result = Returned(JSUndefined)
    /\ \A name \in Names : \A i \in Calls :
          InForce(i, name) => GetOutcome(services, name) = Returned(log[i].instance)

\* C6: get and has are pure reads: no call of either, succeeding or failing,
\* changes the registry contents, and get(k) calls separated only by reads
\* give the same result (the same reference).
C6_ReadsArePure ==
    /\ [][ReadStep => services' = services]_vars
    /\ [](\A i \in Calls : \A j \in Calls :
            ( /\ i < j
              /\ log[i].op = "get"
              /\ log[j].op = "get"
              /\ log[i].name = log[j].name
              /\ \A l \in (i + 1)..(j - 1) : log[l].op \in {"get", "has"} ) =>
                log[i].result = log[j].result)

\* C6 witness: a registered object is looked up twice in a row and returned
C6_Witness ==
    /\ Len(log) = 3
    /\ log[1].op = "register"
    /\ log[2].op = "get"
    /\ log[3].op = "get"
    /\ log[2].name = log[1].name
    /\ log[3].name = log[1].name
    /\ log[3].result = Returned(log[1].instance)
    /\ log[1].instance.type = "object"

(***************************************************************************)
(* Properties of the transport client                                      *)
(***************************************************************************)
IsSuccess(status) == 200 <= status /\ status < 300

\* C7 (SpecMap): for every response mapToHttpResponse builds and every
\* status code c, isSuccessStatusCode is true if and only if 200 <= c < 300;
\* the flag depends on the status alone.
C7_SuccessFlagIffStatus2xx ==
    mapped # <<>> =>
        /\ mapped[1].isSuccessStatusCode <=> IsSuccess(mapped[1].status)
        /\ mapped[1].status \in {199, 300} => ~mapped[1].isSuccessStatusCode
        /\ mapped[1].status \in {200, 299} => mapped[1].isSuccessStatusCode

\* C7 witness: a response with the boundary status 299 was built and is
\* flagged successful
C7_Witness ==
    /\ mapped # <<>>
    /\ mapped[1].status = 299
    /\ mapped[1].isSuccessStatusCode

\* C8 (SpecMap): ensureSuccessStatusCode() throws if and only if the status
\* is outside [200,300); the error message is then
\* "HTTP Error <status>: <statusText>" of that response; for a 2xx status it
\* returns, and in both cases the response is left as it was.
C8_EnsureThrowsIffNot2xx ==
    /\ [](ensured # <<>> =>
            /\ ensured[1].outcome = "threw" <=> ~IsSuccess(mapped[1].status)
            /\ ensured[1].outcome = "threw" =>
                  ensured[1].message =
                      "HTTP Error " \o ToString(mapped[1].status) \o ": "
                          \o mapped[1].statusText
            /\ ensured[1].outcome # "threw" => ensured[1] = Returned(JSUndefined))
    /\ [][(ensured = <<>> /\ ensured' # <<>>) => mapped' = mapped]_vars

\* C8 witness: the check was called on a 300 response and threw
C8_Witness ==
    /\ ensured # <<>>
    /\ mapped[1].status = 300
    /\ ensured[1].outcome = "threw"

\* C9 (SpecHttp): for an exchange that completed with a non-2xx status, send
\* does not reject: it resolves with a response whose isSuccessStatusCode is
\* false, and an error arises only from ensureSuccessStatusCode().
C9_HttpErrorStatusResolves ==
    \A id \in SendIds :
        ( /\ sends[id].exchange # <<>>
          /\ sends[id].exchange[1].completed
          /\ ~IsSuccess(sends[id].exchange[1].response.status) ) =>
            /\ sends[id].pc # "rejected"
            /\ sends[id].error = <<>>
            /\ sends[id].pc = "resolved" =>
                  /\ sends[id].result[1].status = sends[id].exchange[1].response.status
                  /\ ~sends[id].result[1].isSuccessStatusCode

\* C10 (SpecHttp): every send call hands exactly one request to the axios
\* instance; when the exchange fails (timeout, connection error) send
\* rejects with that same error and produces no response.
C10_TransportFailureRejectsOnce ==
    \A id \in SendIds :
        /\ sends[id].pc # "idle" => Len(sends[id].outbound) = 1
        /\ (sends[id].exchange # <<>> /\ ~sends[id].exchange[1].completed) =>
              /\ sends[id].pc \in {"settled", "rejected"}
              /\ sends[id].result = <<>>
              /\ sends[id].pc = "rejected" =>
                    sends[id].error = <<sends[id].exchange[1].error>>

\* C10 witness: a send whose exchange timed out has rejected
C10_Witness ==
    \E id \in SendIds :
        /\ sends[id].pc = "rejected"
        /\ ~sends[id].exchange[1].completed
        /\ sends[id].exchange[1].error.code = "ECONNABORTED"
        /\ sends[id].error[1].code = "ECONNABORTED"

\* C11 (SpecHttp): send does not mutate the request descriptor: the message
\* handed to the axios instance has the descriptor's url, method and headers
\* and the descriptor's body as data (absent when there is no body), and the
\* descriptor is the same at every later point of the call as when it was
\* passed in.
C11_SendLeavesDescriptorAlone ==
    /\ [](\A id \in SendIds :
            sends[id].pc # "idle" =>
                /\ sends[id].request[1] \in Requests
                /\ sends[id].outbound[1].url = sends[id].request[1].url
                /\ sends[id].outbound[1].method = sends[id].request[1].method
                /\ sends[id].outbound[1].headers = sends[id].request[1].headers
                /\ sends[id].outbound[1].data = sends[id].request[1].body)
    /\ [][\A id \in SendIds :
            sends[id].pc # "idle" => sends'[id].request = sends[id].request]_vars

\* C11 witness: a send of a descriptor with headers and no body has settled;
\* the outbound message carries those headers and no data
C11_Witness ==
    \E id \in SendIds :
        /\ sends[id].pc \in {"resolved", "rejected"}
        /\ sends[id].request[1].headers # <<>>
        /\ sends[id].request[1].body = <<>>
        /\ sends[id].outbound[1].headers = sends[id].request[1].headers
        /\ sends[id].outbound[1].data = <<>>

(***************************************************************************)
(* Properties of the token issuer (checked under SpecAuth)                 *)
(***************************************************************************)
Started(id) == tokens[id].pc # "idle"
SendOf(id) == sends[tokens[id].send]

\* The token request of each configuration, written out
ExpectedTokenUrl ==
    CASE authService.config = TestAuthConfig ->
            "https://login.microsoftonline.com/test-tenant-id/oauth2/v2.0/token"
      [] authService.config = SpecialAuthConfig ->
            "https://login.microsoftonline.com/t1/oauth2/v2.0/token"
      [] authService.config = EmptyAuthConfig ->
            "https://login.microsoftonline.com//oauth2/v2.0/token"
ExpectedTokenBody ==
    CASE authService.config = TestAuthConfig ->
            "grant_type=client_credentials&client_id=test-client-id&client_secret=test-client-secret&scope=https%3A%2F%2Fgraph.microsoft.com%2F.default"
      [] authService.config = SpecialAuthConfig ->
            "grant_type=client_credentials&client_id=a+b&client_secret=s%26c%3Dr%2Bt%25&scope=api%3A%2F%2Fx%2F%7Eu*"
      [] authService.config = EmptyAuthConfig ->
            "grant_type=client_credentials&client_id=&client_secret=&scope=https%3A%2F%2Fgraph.microsoft.com%2F.default"

\* The token a response body stands for, given the instant of issuance
ExpectedToken(data, issuedAt) ==
    CASE data = "{access_token:X,token_type:Bearer,expires_in:3600}" ->
            [accessToken |-> "X", tokenType |-> "Bearer", expiresIn |-> 3600,
             expiresAt |-> issuedAt + 3600000]
      [] data = "{access_token:Y,token_type:Bearer,expires_in:7200}" ->
            [accessToken |-> "Y", tokenType |-> "Bearer", expiresIn |-> 7200,
             expiresAt |-> issuedAt + 7200000]
      [] OTHER -> NoToken

\* C12: every getToken() call hands send one request: method POST, the
\* issuer URL with the configured tenant id, the single header Content-Type:
\* application/x-www-form-urlencoded, and the body grant_type, client_id,
\* client_secret, scope in that order with form-percent-encoded values.
C12_TokenRequest ==
    \A id \in TokenIds :
        Started(id) =>
            /\ tokens[id].send \in SendIds
            /\ Len(SendOf(id).outbound) = 1
            /\ SendOf(id).request[1].method = "POST"
            /\ SendOf(id).request[1].url = ExpectedTokenUrl
            /\ Len(SendOf(id).request[1].headers) = 1
            /\ DOMAIN SendOf(id).request[1].headers[1] = {"Content-Type"}
            /\ SendOf(id).request[1].headers[1]["Content-Type"]
                  = "application/x-www-form-urlencoded"
            /\ SendOf(id).request[1].body = <<ExpectedTokenBody>>

\* C12 witness: a call was made with the configuration whose client id,
\* secret and scope hold a space and the characters & = + % : / ~ *
C12_Witness ==
    /\ authService.config = SpecialAuthConfig
    /\ Started(1)
    /\ SendOf(1).outbound[1].data
          = <<"grant_type=client_credentials&client_id=a+b&client_secret=s%26c%3Dr%2Bt%25&scope=api%3A%2F%2Fx%2F%7Eu*">>

\* The instant the injected time source shows
InjectedNow == IF timeProvider.kind = "system" THEN clock ELSE timeProvider.fixed

\* C13: a getToken() call whose exchange succeeded returns the token of its
\* response body: accessToken, tokenType and expiresIn as received, and
\* expiresAt = the injected time source's now() plus expires_in seconds,
\* now() being read once, when the call resumes after the response.
C13_TokenFromResponse ==
    /\ [](\A id \in TokenIds :
            tokens[id].pc = "resolved" =>
                /\ Len(tokens[id].nowCalls) = 1
                /\ tokens[id].result
                      = <<ExpectedToken(SendOf(id).exchange[1].response.data,
                                        tokens[id].nowCalls[1])>>
                /\ tokens[id].result[1].accessToken # "")
    /\ [][\A id \in TokenIds :
            (tokens[id].pc = "awaiting" /\ tokens'[id].pc = "resolved") =>
                tokens'[id].nowCalls = <<InjectedNow>>]_vars

\* C13 witness: with a time source fixed at 12:00:00 and the ambient clock
\* elsewhere, a 3600 s token was issued that expires at 13:00:00
C13_Witness ==
    \E id \in TokenIds :
        /\ tokens[id].pc = "resolved"
        /\ timeProvider = FixedTimeProvider(43200000)
        /\ clock = 1000
        /\ tokens[id].result[1].expiresIn = 3600
        /\ tokens[id].result[1].expiresAt = 46800000

\* C14: when the exchange of a getToken() call completed with a non-2xx
\* status, the call invokes the response's ensureSuccessStatusCode and
\* rejects with the error that check throws ("HTTP Error <status>:
\* <statusText>"), returns no token and does not consult the time source.
C14_HttpErrorPropagatesFromCheck ==
    \A id \in TokenIds :
        ( /\ tokens[id].pc \in {"resolved", "rejected"}
          /\ SendOf(id).exchange[1].completed
          /\ ~IsSuccess(SendOf(id).exchange[1].response.status) ) =>
            /\ tokens[id].pc = "rejected"
            /\ tokens[id].ensure # <<>>
            /\ tokens[id].error =
                  <<ErrorOf("HTTP Error "
                            \o ToString(SendOf(id).exchange[1].response.status) \o ": "
                            \o SendOf(id).exchange[1].response.statusText)>>
            /\ tokens[id].result = <<>>
            /\ tokens[id].nowCalls = <<>>

RECURSIVE RequestsHanded(_)
RequestsHanded(n) ==
    IF n = 0 THEN 0 ELSE Len(sends[n].outbound) + RequestsHanded(n - 1)

\* C15: the number of requests handed to the transport client equals the
\* number of getToken() calls made, whatever the outcome of each, and a
\* call that returns a token returns the one of its own exchange.
C15_OneRequestPerCall ==
    /\ RequestsHanded(MaxSends) = Cardinality({id \in TokenIds : Started(id)})
    /\ \A id \in TokenIds :
          Started(id) =>
              /\ tokens[id].send \in SendIds
              /\ \A other \in TokenIds :
                    (other # id /\ Started(other)) => tokens[other].send # tokens[id].send
              /\ tokens[id].pc = "resolved" =>
                    /\ SendOf(id).pc = "resolved"
                    /\ tokens[id].result[1].accessToken
                          = ExpectedToken(SendOf(id).exchange[1].response.data, 0).accessToken

\* C15 witness: one call failed at the transport level, the next one
\* returned a token, and two requests were handed to the transport client
C15_Witness ==
    /\ tokens[1].pc = "rejected"
    /\ ~SendOf(1).exchange[1].completed
    /\ tokens[2].pc = "resolved"
    /\ RequestsHanded(MaxSends) = 2

\* C16: concurrent getToken() calls are independent: each has its own
\* request, each settles with the token or the error of its own exchange
\* under every order of arrival, and no call changes the issuer (its
\* configuration, transport client and time source).
C16_ConcurrentCallsIndependent ==
    /\ [](\A id \in TokenIds :
            Started(id) =>
                /\ tokens[id].send \in SendIds
                /\ SendOf(id).pc # "idle"
                /\ \A other \in TokenIds :
                      (other # id /\ Started(other)) =>
                          tokens[other].send # tokens[id].send
                /\ tokens[id].pc = "resolved" =>
                      tokens[id].result
                          = <<ExpectedToken(SendOf(id).exchange[1].response.data,
                                            tokens[id].nowCalls[1])>>
                /\ (tokens[id].pc = "rejected" /\ SendOf(id).pc = "rejected") =>
                      tokens[id].error = SendOf(id).error)
    /\ [][/\ authService' = authService
          /\ timeProvider' = timeProvider
          /\ client' = client]_vars

\* C16 witness: two calls in flight together, the responses arriving in the
\* other order: the later call has its token (Y) while the earlier one is
\* still waiting
C16_Witness ==
    /\ tokens[1].pc = "awaiting"
    /\ SendOf(1).pc = "awaiting"
    /\ tokens[2].pc = "resolved"
    /\ tokens[2].result[1].accessToken = "Y"

(***************************************************************************)
(* Bootstrap and the instances the presentation layer uses                 *)
(***************************************************************************)
\* Keys probed with has(): the three well-known keys and two others
ProbedKeys == Services \cup {"Logger", ""}

Booted == boot.pc = "returned"
BootFailed == boot.pc = "threw"
RegisteredRefs == {services[name].ref : name \in DOMAIN services}
ClassOf(ref) == heap[ref].class

\* C17: when configureServices() has returned, it constructed the time
\* source, then the transport client, then the token issuer (the first three
\* instances ever constructed, in that order), the token issuer holds those
\* same two instances, has() is true for exactly the keys 'TimeProvider',
\* 'HttpClient' and 'AuthService', and get() of each returns the instance
\* constructed in that call.
C17_ConfigureServices ==
    Booted =>
        /\ Len(heap) >= 3
        /\ ClassOf(1) = "SystemTimeProvider"
        /\ ClassOf(2) = "HttpClient"
        /\ ClassOf(3) = "AuthorizationService"
        /\ heap[3].timeProvider = 1
        /\ heap[3].httpClient = 2
        /\ {key \in ProbedKeys : HasOutcome(services, key) = Returned(JSTrue)}
               = {"TimeProvider", "HttpClient", "AuthService"}
        /\ GetOutcome(services, "TimeProvider") = Returned(JSObject(1))
        /\ GetOutcome(services, "HttpClient") = Returned(JSObject(2))
        /\ GetOutcome(services, "AuthService") = Returned(JSObject(3))
        /\ useService("AuthService") = Returned(JSObject(3))

\* configureServices() has returned and the component has rendered since
C17_Witness ==
    /\ Booted
    /\ Len(log) = 3
    /\ ui.renders = 1

\* C18: when a constructor threw during configureServices(), the caller holds
\* the error and no registry: nothing was registered, the presentation layer
\* has no container to resolve from and never renders.
C18_BootstrapFailsFast ==
    BootFailed =>
        /\ boot.error # <<>>
        /\ boot.container = <<>>
        /\ services = EmptyMap
        /\ log = <<>>
        /\ ui.renders = 0
        /\ uiCalls = <<>>
    /\ dates = <<>>
    /\ timeCalls = <<>>
    /\ page = NotRendered
        /\ \A key \in Services :
               useService(key) = Threw("useService must be used within a ServiceProvider")

\* The token issuer's constructor threw after the other two were constructed
C18_Witness ==
    /\ BootFailed
    /\ Len(heap) = 2
    /\ boot.error = <<ConstructorError("AuthorizationService")>>

MissingRequired == {name \in RequiredEnvNames : env[name] = <<>>}

\* C19: when a required environment variable (tenant id, client id or client
\* secret) is missing, bootstrap does not produce a registry: it never
\* returns one whose token issuer is configured with that value absent.
C19_MissingVariableFailsBootstrap ==
    (MissingRequired # {}) => ~Booted

\* C20: every token fetch and every request of the presentation layer goes
\* through an instance that configureServices() registered, and once
\* bootstrap has returned no instance other than the registered ones exists.
C20_ServicesAreSingletons ==
    /\ \A i \in 1..Len(uiCalls) : uiCalls[i].instance \in RegisteredRefs
    /\ Booted => \A ref \in 1..Len(heap) : ref \in RegisteredRefs

(***************************************************************************)
(* The configuration of the transport client                               *)
(***************************************************************************)
TimeoutGiven == clientOptions # <<>> /\ clientOptions[1].timeout # <<>>

\* C24: in every state, before and after any number of send calls, the
\* timeout of the transport client is the value supplied to the constructor
\* when one was supplied and 30000 when it was not (no options, or options
\* without timeout), and its base URL is the supplied value or absent.
C24_ConfigurationFixedAtConstruction ==
    /\ client.timeout = (IF TimeoutGiven THEN clientOptions[1].timeout[1] ELSE 30000)
    /\ client.baseURL = (IF clientOptions = <<>> THEN <<>> ELSE clientOptions[1].baseUrl)

\* A client constructed with timeout 0 has completed one send and begun another
C24_Witness ==
    /\ clientOptions # <<>>
    /\ clientOptions[1].timeout = <<0>>
    /\ sends[1].pc = "resolved"
    /\ sends[2].pc = "awaiting"

(***************************************************************************)
(* addSeconds and addMinutes                                               *)
(***************************************************************************)
UnitMs(op) == IF op = "addSeconds" THEN 1000 ELSE 60000

\* The instant exactly delta ms after an instant, whether or not a Date can
\* hold it
ExactlyAfter(t, delta) ==
    LET total == t.ms + delta
    IN  TimeValue(t.day + (total \div MsPerDay), total % MsPerDay)
ExactResult(call) == ExactlyAfter(call.before, call.amount * UnitMs(call.op))
Representable(t) == InDateRange(t.day, t.ms)

\* Milliseconds from instant a to instant b
Elapsed(a, b) == (b.day - a.day) * MsPerDay + (b.ms - a.ms)
\* The result of a call is a valid Date, as far after the argument as asked
AddedExactly(call) ==
    LET result == dates[call.result]
    IN  /\ result.valid
        /\ result.ms >= 0 /\ result.ms < MsPerDay
        /\ Elapsed(call.before, result) = call.amount * UnitMs(call.op)

\* The result of a call is a new object, and its argument still holds the
\* time value it held before the call
NewInstanceArgumentKept(call) ==
    /\ call.result # call.date
    /\ dates[call.date] = call.before

\* C23 as stated: for every call on an instant t with an integer n, the
\* result is the instant exactly n*1000 ms (addSeconds) or n*60000 ms
\* (addMinutes) after t, a new instance, and t is unchanged.
C23_AddsExactlyForAllInstants ==
    \A i \in 1..Len(timeCalls) :
        timeCalls[i].before.valid =>
            /\ AddedExactly(timeCalls[i])
            /\ NewInstanceArgumentKept(timeCalls[i])

\* C23 amended: the same, for the calls whose exact result lies within the
\* range of Date (at most 8.64e15 ms from the epoch); beyond it the result
\* is an Invalid Date.  In both cases the result is a new instance and the
\* argument is unchanged.
C23_AddsExactlyWithinDateRange ==
    \A i \in 1..Len(timeCalls) :
        timeCalls[i].before.valid =>
            /\ Representable(ExactResult(timeCalls[i])) => AddedExactly(timeCalls[i])
            /\ ~Representable(ExactResult(timeCalls[i])) =>
                   dates[timeCalls[i].result] = InvalidDate
            /\ NewInstanceArgumentKept(timeCalls[i])

\* addSeconds(t, 0) returned a new Date equal to t, and addMinutes with a
\* negative amount was applied to that result, crossing midnight backwards
C23_Witness ==
    /\ Len(timeCalls) = 2
    /\ timeCalls[1].op = "addSeconds"
    /\ timeCalls[1].amount = 0
    /\ timeCalls[1].before = TimeValue(0, 0)
    /\ timeCalls[2].op = "addMinutes"
    /\ timeCalls[2].amount = -1
    /\ timeCalls[2].date = 2
    /\ dates[3] = TimeValue(-1, MsPerDay - 60000)

(***************************************************************************)
(* The HttpClient component                                                *)
(***************************************************************************)
Handlers == 1..Len(page.handlers)
TokenHandlers == {h \in Handlers : page.handlers[h].kind = "getToken"}
SendHandlers == {h \in Handlers : page.handlers[h].kind = "send"}
TokenHeld == page.authToken # <<>>
\* The held token has not expired: its expiresAt is strictly later than now
HeldTokenCurrent == TokenHeld /\ page.authToken[1].expiresAt > clock

\* C21: the status on the screen is 'Token Valid' exactly when a token is
\* held and its expiresAt is strictly later than the current time, and
\* 'No Token' otherwise: when none is held, when the last fetch failed, and
\* once the time has reached or passed expiresAt.
C21_StatusShowsValidity ==
    /\ page.view.isTokenValid = HeldTokenCurrent
    /\ page.view.status = (IF HeldTokenCurrent THEN "Token Valid" ELSE "No Token")

\* The Authorization header value for a token
AuthorizationOf(token) == token.tokenType \o " " \o token.accessToken

\* C22: every request the component sent went out once, with the url, method
\* and body the form held at the click; its headers are the form's headers
\* when no token was held at the click, and the form's headers plus
\* Authorization = '<tokenType> <accessToken>' of the token held at the click
\* otherwise, expired or not.
C22_AuthorizationHeaderAttached ==
    \A h \in SendHandlers :
        LET form == page.handlers[h].request[1]
            held == page.handlers[h].authToken
            sent == sends[page.handlers[h].call].outbound
        IN  /\ Len(sent) = 1
            /\ sent[1].url = form.url
            /\ sent[1].method = form.method
            /\ sent[1].data = form.body
            /\ held = <<>> => sent[1].headers = form.headers
            /\ held # <<>> =>
                  /\ DOMAIN sent[1].headers[1] = DOMAIN form.headers[1] \cup {"Authorization"}
                  /\ sent[1].headers[1]["Authorization"] = AuthorizationOf(held[1])
                  /\ \A name \in DOMAIN form.headers[1] \ {"Authorization"} :
                         sent[1].headers[1][name] = form.headers[1][name]

\* A request was sent with the header of a token that had expired by then
C22_Witness ==
    \E h \in SendHandlers :
        /\ page.handlers[h].authToken # <<>>
        /\ page.handlers[h].authToken[1].expiresAt <= page.handlers[h].clickedAt
        /\ sends[page.handlers[h].call].outbound[1].headers[1]["Authorization"] = "Bearer Z"

\* A URL with a character that is not white space
NonBlank(url) == \E i \in 1..Len(url) : url[i] \notin WhiteSpace

\* C25: the Send Request button is enabled exactly when the URL is non-empty
\* after trimming and isLoading is false, and every request sent through the
\* button had such a URL.
C25_SendButtonEnabled ==
    /\ ~page.view.sendDisabled = (NonBlank(page.request.url) /\ ~page.isLoading)
    /\ \A h \in SendHandlers : NonBlank(page.handlers[h].request[1].url)

\* After a request was sent the URL was replaced by a blank and the button is
\* disabled although nothing is loading
C25_Witness ==
    /\ page.request.url = <<" ">>
    /\ ~page.isLoading
    /\ page.view.sendDisabled
    /\ \E h \in SendHandlers : page.handlers[h].done

\* What a Get Token handler leaves as the held token: the token its
\* getToken() call returned, or none when the call failed
Fetched(h) ==
    IF tokens[page.handlers[h].call].pc = "resolved"
    THEN tokens[page.handlers[h].call].result
    ELSE <<>>

\* C26: whenever a Get Token handler finishes, the held token is the token
\* the fetch returned, or none when the fetch failed (whatever was held
\* before), isLoading is false, and no error has left a handler.
C26_GetTokenOutcomeHandled ==
    [][ \A h \in TokenHandlers :
           (h \in InFlight(page) /\ h \notin InFlight(page')) =>
               /\ page'.authToken = Fetched(h)
               /\ ~page'.isLoading
               /\ page'.unhandled = <<>> ]_vars

\* A token that is still valid was held, a second fetch failed, and none is
\* held any more
C26_Witness ==
    \E a, b \in TokenHandlers :
        /\ a < b
        /\ a \notin page.handlers[b].overlapped
        /\ page.handlers[a].done /\ page.handlers[b].done
        /\ Fetched(a) # <<>> /\ Fetched(a)[1].expiresAt > clock
        /\ tokens[page.handlers[b].call].pc = "rejected"
        /\ page.authToken = <<>>
        /\ ~page.isLoading

\* C27: isLoading is true exactly while at least one handler started by the
\* component is in flight, and at most one Send Request is in flight.
C27_LoadingWhileInFlight ==
    /\ page.isLoading = (InFlight(page) # {})
    /\ Cardinality(InFlight(page) \cap SendHandlers) <= 1

\* The response objects in existence: those send returned and the one the
\* component displays
ResponseObjects ==
    {sends[id].result[1] : id \in {i \in SendIds : sends[i].result # <<>>}}
        \cup {page.response[1] : x \in {i \in {1} : page.response # <<>>}}

\* C28: every response object has isSuccessStatusCode true exactly when its
\* status is in [200,300), and its ensureSuccessStatusCode() fails exactly
\* when isSuccessStatusCode is false.
C28_EveryResponseKeepsContract ==
    \A r \in ResponseObjects :
        /\ r.isSuccessStatusCode = (r.status >= 200 /\ r.status < 300)
        /\ (ensureSuccessStatusCode(r).outcome = "threw") = ~r.isSuccessStatusCode

RequestFields == {"url", "method", "headers", "body"}

\* C29: an edit in the request form changes one field of the request and
\* leaves the others as they were, and no request goes out with method GET
\* and a body.
C29_EditsAndBodylessGet ==
    /\ [][ page'.request # page.request =>
              Cardinality({f \in RequestFields : page'.request[f] # page.request[f]}) = 1 ]_vars
    /\ [](\A h \in SendHandlers :
              \A i \in 1..Len(sends[page.handlers[h].call].outbound) :
                  sends[page.handlers[h].call].outbound[i].method = "GET" =>
                      sends[page.handlers[h].call].outbound[i].data = <<>>)

\* The Get Token handler that finished last
LastSettledTokenHandler ==
    LET positions == {i \in 1..Len(page.settled) : page.settled[i] \in TokenHandlers}
    IN  page.settled[CHOOSE i \in positions : \A j \in positions : j <= i]
Overlapped(a, b) ==
    a \in page.handlers[b].overlapped \/ b \in page.handlers[a].overlapped

\* C30: when two Get Token handlers overlapped and both have finished, and
\* one of them is the last to have finished, the held token is what that one
\* fetched: its token if it succeeded, none if it failed, whichever of the
\* two was started last.
C30_LastSettledFetchWins ==
    \A a, b \in TokenHandlers :
        ( /\ a # b
          /\ Overlapped(a, b)
          /\ page.handlers[a].done /\ page.handlers[b].done
          /\ LastSettledTokenHandler = a )
        => page.authToken = Fetched(a)

\* Of two overlapping fetches the one started first finished last and failed;
\* the other had succeeded, and no token is held
C30_Witness ==
    \E a, b \in TokenHandlers :
        /\ a < b
        /\ Overlapped(a, b)
        /\ page.handlers[a].done /\ page.handlers[b].done
        /\ LastSettledTokenHandler = a
        /\ Fetched(a) = <<>>
        /\ Fetched(b) # <<>>
        /\ page.authToken = <<>>

====
